---- MODULE Spec2Model ----
(***************************************************************************)
(* Fraud-detection agent of backend/src/services: feature extraction,      *)
(* model loading, risk scoring, severity classification, alert dispatch    *)
(* and the streaming ingestion loop; the offline trainer, the feedback     *)
(* file, and the payment agent's process_instruction.                      *)
(*                                                                         *)
(* Numbers: probabilities and risks are fixed-point integers in units of   *)
(* 0.0001 (10000 = 1.0).  Raw anomaly scores are in units of 0.001.        *)
(* Python values are records [t, b, n, s]: t is the Python type tag, b the *)
(* bool, n the int, s the characters of a str (or the items of a list).    *)
(* Strings are sequences of one-character strings.                         *)
(***************************************************************************)
EXTENDS Integers, Sequences, FiniteSets, TLC

VARIABLES
    store,      \* content of the model file at FRAUD_MODEL_PATH
    model,      \* FraudDetectionAgent.model (a FraudModel)
    threshold,  \* FraudDetectionAgent.threshold
    now,        \* wall clock, int(time.time() * 1000)
    pc,         \* position of the caller / of listen_ws
    raw,        \* message returned by ws.recv(), being decoded
    result,     \* outcome of the last process_tx call
    trainer,    \* a run of train_fraud_model.main
    fb,         \* the feedback file feedback.jsonl beside the model file
    writers,    \* the calls of FraudDetectionAgent.feedback in progress
    ext,        \* one transaction put through both feature extractors
    pay         \* a run of PaymentAgent.process_instruction

\* the state of the components other than the scoring agent
aux == <<trainer, fb, writers, ext, pay>>

vars == <<store, model, threshold, now, pc, raw, result,
          trainer, fb, writers, ext, pay>>

----------------------------------------------------------------------------
(* Python values *)

Absent == [t |-> "absent", b |-> FALSE, n |-> 0, s |-> <<>>]
PyNone == [t |-> "none", b |-> FALSE, n |-> 0, s |-> <<>>]
PyBool(x) == [t |-> "bool", b |-> x, n |-> 0, s |-> <<>>]
PyInt(x) == [t |-> "int", b |-> FALSE, n |-> x, s |-> <<>>]
PyStr(x) == [t |-> "str", b |-> FALSE, n |-> 0, s |-> x]
PyList(x) == [t |-> "list", b |-> FALSE, n |-> 0, s |-> x]

\* dict.get(key): a missing key reads as None
Get(v) == IF v.t = "absent" THEN PyNone ELSE v

\* dict.get(key, default)
GetDefault(v, d) == IF v.t = "absent" THEN d ELSE v

\* Python truthiness (bool(v))
Truthy(v) ==
    CASE v.t = "none" -> FALSE
      [] v.t = "absent" -> FALSE
      [] v.t = "bool" -> v.b
      [] v.t = "int" -> v.n # 0
      [] v.t = "str" -> Len(v.s) > 0
      [] v.t = "list" -> Len(v.s) > 0

\* Python ==, on the values above (True == 1, False == 0)
PyNum(v) == IF v.t = "bool" THEN (IF v.b THEN 1 ELSE 0) ELSE v.n
PyEq(a, c) ==
    IF a.t \in {"bool", "int"} /\ c.t \in {"bool", "int"}
    THEN PyNum(a) = PyNum(c)
    ELSE a.t = c.t /\ a.s = c.s

Digits == <<"0", "1", "2", "3", "4", "5", "6", "7", "8", "9">>
IsDigit(c) == \E i \in 1..10 : Digits[i] = c
DigitVal(c) == (CHOOSE i \in 1..10 : Digits[i] = c) - 1

RECURSIVE DigitsVal(_)
DigitsVal(s) ==
    IF s = <<>> THEN 0
    ELSE 10 * DigitsVal(SubSeq(s, 1, Len(s) - 1)) + DigitVal(s[Len(s)])

RECURSIVE IntDigits(_)
IntDigits(n) ==
    IF n < 10 THEN <<Digits[n + 1]>>
    ELSE Append(IntDigits(n \div 10), Digits[(n % 10) + 1])

\* str(v)
str(v) ==
    CASE v.t = "str" -> v.s
      [] v.t = "none" -> <<"N", "o", "n", "e">>
      [] v.t = "bool" -> IF v.b THEN <<"T", "r", "u", "e">>
                         ELSE <<"F", "a", "l", "s", "e">>
      [] v.t = "int" -> IF v.n < 0 THEN <<"-">> \o IntDigits(-v.n)
                        ELSE IntDigits(v.n)
      [] v.t = "list" -> <<"[">> \o v.s \o <<"]">>

Upper == <<"A", "C", "D", "E", "F", "I", "L", "Q", "R", "S", "T", "U">>
Lower == <<"a", "c", "d", "e", "f", "i", "l", "q", "r", "s", "t", "u">>
LowerChar(c) ==
    IF \E i \in 1..Len(Upper) : Upper[i] = c
    THEN Lower[CHOOSE i \in 1..Len(Upper) : Upper[i] = c]
    ELSE c

\* str.lower()
lower(s) == [i \in 1..Len(s) |-> LowerChar(s[i])]

\* needle in s
Contains(s, needle) ==
    \E i \in 0..(Len(s) - Len(needle)) :
        SubSeq(s, i + 1, i + Len(needle)) = needle

\* s.startswith(prefix)
startswith(s, prefix) ==
    Len(s) >= Len(prefix) /\ SubSeq(s, 1, Len(prefix)) = prefix

\* float(x): [ok, v]; ok = FALSE stands for TypeError / ValueError
float(v) ==
    CASE v.t = "int" -> [ok |-> TRUE, v |-> v.n]
      [] v.t = "bool" -> [ok |-> TRUE, v |-> PyNum(v)]
      [] v.t = "str" ->
            LET neg == Len(v.s) > 0 /\ v.s[1] = "-"
                ds == IF neg THEN Tail(v.s) ELSE v.s
            IN  IF Len(ds) > 0 /\ \A i \in 1..Len(ds) : IsDigit(ds[i])
                THEN [ok |-> TRUE,
                      v |-> IF neg THEN -DigitsVal(ds) ELSE DigitsVal(ds)]
                ELSE [ok |-> FALSE, v |-> 0]
      [] OTHER -> [ok |-> FALSE, v |-> 0]

----------------------------------------------------------------------------
(* Feature extraction *)

_safe_num(x) == IF float(x).ok THEN float(x).v ELSE 0

MsPerSecond == 1000
SecondsPerDay == 86400
SecondsPerHour == 3600

\* tx.get("ts") or int(time.time() * 1000)
TsOrNow(t, clock) == IF Truthy(Get(t.ts)) THEN Get(t.ts) ELSE PyInt(clock)

\* (int(ts // 1000) % 86400) // 3600; ok = FALSE stands for TypeError
HourOf(ts) ==
    IF ts.t \in {"int", "bool"}
    THEN [ok |-> TRUE,
          v |-> ((PyNum(ts) \div MsPerSecond) % SecondsPerDay) \div SecondsPerHour]
    ELSE [ok |-> FALSE, v |-> 0]

\* len(tx.get("memo") or ""); ok = FALSE stands for TypeError
MemoLen(t) ==
    LET m == IF Truthy(Get(t.memo)) THEN Get(t.memo) ELSE PyStr(<<>>)
    IN  IF m.t \in {"str", "list"} THEN [ok |-> TRUE, v |-> Len(m.s)]
        ELSE [ok |-> FALSE, v |-> 0]

S_success == <<"s", "u", "c", "c", "e", "s", "s">>
S_fail == <<"f", "a", "i", "l">>
S_queue == <<"q", "u", "e", "u", "e">>

Flag(c) == IF c THEN 1 ELSE 0

\* is_retry of fraud-detection-agent.py (scoring time)
IsRetry(t) == Flag(Truthy(GetDefault(t.retry, PyBool(FALSE))))

RetryAccepted ==
    <<PyBool(TRUE), PyInt(1), PyStr(<<"1">>), PyStr(<<"t", "r", "u", "e">>),
      PyStr(<<"T", "r", "u", "e">>)>>

\* is_retry of fraud_detection_agent.py (training time)
IsRetryTrain(t) ==
    Flag(\E i \in 1..Len(RetryAccepted) :
            PyEq(GetDefault(t.retry, PyBool(FALSE)), RetryAccepted[i]))

\* placeholder carried where no feature dict was produced
ZeroFeats == [amount |-> 0, hour |-> 0, is_retry |-> 0, memo_len |-> 0,
              st_success |-> 0, st_failed |-> 0, st_queued |-> 0]

ExtractWith(t, clock, retry) ==
    LET hour == HourOf(TsOrNow(t, clock))
        status == lower(str(GetDefault(t.status, PyStr(<<>>))))
        memo == MemoLen(t)
    IN  IF ~hour.ok \/ ~memo.ok
        THEN [raised |-> TRUE, feats |-> ZeroFeats]
        ELSE [raised |-> FALSE,
              feats |-> [amount |-> _safe_num(GetDefault(t.amount, PyInt(0))),
                         hour |-> hour.v,
                         is_retry |-> retry,
                         memo_len |-> memo.v,
                         st_success |-> Flag(Contains(status, S_success)),
                         st_failed |-> Flag(Contains(status, S_fail)),
                         st_queued |-> Flag(Contains(status, S_queue))]]

\* fraud-detection-agent.py
_extract_features(t, clock) == ExtractWith(t, clock, IsRetry(t))

\* fraud_detection_agent.py
_extract_features_train(t, clock) == ExtractWith(t, clock, IsRetryTrain(t))

----------------------------------------------------------------------------
(* Model artifact *)

ZeroVec == <<0, 0, 0, 0, 0, 0, 0>>

NoScaler == [kind |-> "none", mean |-> ZeroVec]
NoIso == [kind |-> "none", rawv |-> 0]

\* LogisticRegression() and IsolationForest(...) that were never fitted
UnfittedClf == [kind |-> "unfit", bias |-> 0, w |-> ZeroVec]
UnfittedIso == [kind |-> "unfit", rawv |-> 0]

\* the FraudModel built in the except branch of FraudModel.load
DefaultModel == [scaler |-> NoScaler, clf |-> UnfittedClf, iso |-> UnfittedIso]

\* FraudModel.load: joblib.load raises on a missing or unreadable file,
\* FraudModel(**obj) raises on anything but a mapping with the three keys
load(file) == IF file.kind = "dict" THEN file.obj ELSE DefaultModel

----------------------------------------------------------------------------
(* Scoring *)

cols == <<"amount", "hour", "is_retry", "memo_len", "st_failed", "st_queued",
          "st_success">>

\* scaler.transform(X); ok = FALSE stands for the exception it raises
transform(sc, X) ==
    IF sc.kind = "std"
    THEN [ok |-> TRUE, X |-> [i \in 1..Len(X) |-> X[i] - sc.mean[i]]]
    ELSE [ok |-> FALSE, X |-> X]

\* FraudDetectionAgent.features, from the extracted feature dict on
FeaturesOf(m, ex) ==
    LET X == [i \in 1..Len(cols) |-> ex.feats[cols[i]]]
        Xs == transform(m.scaler, X)
    IN  IF ex.raised
        THEN [raised |-> TRUE, raisedIn |-> "extract", feats |-> ZeroFeats,
              X |-> ZeroVec]
        ELSE IF m.scaler.kind = "none"
             THEN [raised |-> FALSE, raisedIn |-> "", feats |-> ex.feats,
                   X |-> X]
        ELSE IF Xs.ok
             THEN [raised |-> FALSE, raisedIn |-> "", feats |-> ex.feats,
                   X |-> Xs.X]
        ELSE [raised |-> TRUE, raisedIn |-> "scale", feats |-> ex.feats,
              X |-> ZeroVec]

\* FraudDetectionAgent.features
features(m, t, clock) == FeaturesOf(m, _extract_features(t, clock))

RECURSIVE Dot(_, _)
Dot(w, X) ==
    IF w = <<>> THEN 0 ELSE w[1] * X[1] + Dot(Tail(w), Tail(X))

DefaultP == 5000

\* 1.0 in units of 0.0001
One == 10000

\* hasattr(clf, "predict_proba")
HasPredictProba(c) == c.kind # "none"

\* clf.predict_proba(X)[0, 1]; ok = FALSE stands for the exception it raises
predict_proba(c, X) ==
    IF c.kind = "linear" THEN [ok |-> TRUE, v |-> c.bias + Dot(c.w, X)]
    ELSE [ok |-> FALSE, v |-> 0]

\* iso.score_samples(X)[0], in units of 0.001
score_samples(i, X) ==
    IF i.kind = "fitted" THEN [ok |-> TRUE, v |-> i.rawv]
    ELSE [ok |-> FALSE, v |-> 0]

\* largest x (units of 0.001) for which math.exp(x) does not overflow
ExpOverflow == 709782

\* 1/(1+e^-k) for k = 0..9, in units of 0.0001
SigmoidTable == <<5000, 7310, 8808, 9526, 9820, 9934, 9976, 9990, 9996, 9998>>

Sigmoid(k) ==
    IF k >= 0
    THEN (IF k < Len(SigmoidTable) THEN SigmoidTable[k + 1] ELSE One)
    ELSE (IF -k < Len(SigmoidTable) THEN One - SigmoidTable[(-k) + 1] ELSE 0)

\* s = 1.0 / (1.0 + math.exp(-s)); ok = FALSE stands for OverflowError
squash(s) ==
    IF -s > ExpOverflow THEN [ok |-> FALSE, v |-> 0]
    ELSE [ok |-> TRUE, v |-> Sigmoid(s \div 1000)]

Min(a, c) == IF a <= c THEN a ELSE c
Max(a, c) == IF a >= c THEN a ELSE c

\* clamp without the upper bound
clamp_lower_only(p) == Max(p, 0)

\* min(max(p, 0.0), 1.0)
clamp(p) == Min(Max(p, 0), One)

\* FraudDetectionAgent.score, from the feature matrix on
ScoreOf(m, f) ==
    LET pp == predict_proba(m.clf, f.X)
        p == IF HasPredictProba(m.clf) /\ pp.ok THEN pp.v ELSE DefaultP
        ss == score_samples(m.iso, f.X)
        sq == squash(-ss.v)
        blended == IF m.iso.kind # "none" /\ ss.ok /\ sq.ok
                   THEN (p + sq.v) \div 2
                   ELSE p
    IN  IF f.raised
        THEN [raised |-> TRUE, raisedIn |-> f.raisedIn, feats |-> f.feats,
              risk |-> 0]
        ELSE [raised |-> FALSE, raisedIn |-> "", feats |-> f.feats,
              risk |-> clamp(blended)]

\* FraudDetectionAgent.score
score(m, t, clock) == ScoreOf(m, features(m, t, clock))

CriticalFloor == 9000
MediumFloor == 4000

\* classify with a strict comparison against the threshold
classify_strict(p, t) ==
    IF p >= Max(t, CriticalFloor) THEN "critical"
    ELSE IF p > t THEN "high"
    ELSE IF p >= MediumFloor THEN "medium"
    ELSE "low"

\* FraudDetectionAgent.classify
classify(p, t) ==
    IF p >= Max(t, CriticalFloor) THEN "critical"
    ELSE IF p >= t THEN "high"
    ELSE IF p >= MediumFloor THEN "medium"
    ELSE "low"

\* round(p, 3): to a multiple of 0.001, ties to even
round3(p) ==
    LET r == p % 10
        lo == p - r
    IN  IF r < 5 THEN lo
        ELSE IF r > 5 THEN lo + 10
        ELSE IF (lo \div 10) % 2 = 0 THEN lo ELSE lo + 10

\* requests.post(..., timeout=5) raises on a timeout or a network error and
\* returns a response otherwise, whatever its status code
PostRaises(outcome) == outcome \in {"timeout", "neterror"}

\* alert with the post outside any try block
alert_uncaught(t, p, level, outcome) ==
    IF PostRaises(outcome)
    THEN [raised |-> TRUE,
          posts |-> <<[risk |-> p, level |-> level, outcome |-> outcome]>>,
          logs |-> <<>>]
    ELSE [raised |-> FALSE,
          posts |-> <<[risk |-> p, level |-> level, outcome |-> outcome]>>,
          logs |-> <<[tx |-> t, risk |-> round3(p), level |-> level]>>]

\* FraudDetectionAgent.alert: the except clause around the post catches
\* whatever it raises, and the log call follows the try block
alert(t, p, level, outcome) ==
    [raised |-> FALSE,
     posts |-> <<[risk |-> p, level |-> level, outcome |-> outcome]>>,
     logs |-> <<[tx |-> t, risk |-> round3(p), level |-> level]>>]

NoAlert == [raised |-> FALSE, posts |-> <<>>, logs |-> <<>>]

\* the result of process_tx once score and classify have returned;
\* raisedIn names the call an exception escaped from
Assessed(t, clock, sc, level, al) ==
    IF sc.raised
    THEN [status |-> "raised", raisedIn |-> sc.raisedIn,
          tx |-> t, at |-> clock, feats |-> sc.feats,
          risk |-> 0, level |-> "none", posts |-> <<>>, logs |-> <<>>]
    ELSE [status |-> IF al.raised THEN "raised" ELSE "returned",
          raisedIn |-> IF al.raised THEN "alert" ELSE "",
          tx |-> t, at |-> clock, feats |-> sc.feats,
          risk |-> sc.risk, level |-> level,
          posts |-> al.posts, logs |-> al.logs]

\* process_tx alerting from medium severity up
AlertIf_medium(t, clock, sc, level, outcome) ==
    Assessed(t, clock, sc, level,
             IF level \in {"medium", "high", "critical"}
             THEN alert(t, sc.risk, level, outcome)
             ELSE NoAlert)

\* if level in ("high", "critical"): self.alert(tx, p, level)
AlertIf(t, clock, sc, level, outcome) ==
    Assessed(t, clock, sc, level,
             IF level \in {"high", "critical"}
             THEN alert(t, sc.risk, level, outcome)
             ELSE NoAlert)

\* level = self.classify(p)
Classified(thr, t, clock, sc, outcome) ==
    AlertIf(t, clock, sc, classify(sc.risk, thr), outcome)

\* FraudDetectionAgent.process_tx
process_tx(m, thr, t, clock, outcome) ==
    Classified(thr, t, clock, score(m, t, clock), outcome)

----------------------------------------------------------------------------
(* Inputs *)

EmptyTx == [ts |-> Absent, amount |-> Absent, status |-> Absent,
            retry |-> Absent, memo |-> Absent]

HourMs == SecondsPerHour * MsPerSecond

TsValues ==
    {PyNone, PyInt(0), PyInt(HourMs), PyInt(24 * HourMs - 1), PyInt(-1),
     PyStr(<<"5">>)}

AmountValues ==
    {PyNone, PyInt(5), PyInt(-3), PyBool(TRUE), PyStr(<<"1", "2">>),
     PyStr(<<"a", "b", "c">>), PyList(<<"1">>)}

StatusValues ==
    {PyNone, PyInt(5), PyStr(<<"s", "u", "c", "c", "e", "s", "s">>),
     PyStr(<<"F", "A", "I", "L", "E", "D">>),
     PyStr(<<"q", "u", "e", "u", "e", "d">>),
     PyStr(<<"d", "e", "q", "u", "e", "u", "e", "-", "f", "a", "i", "l">>)}

RetryValues ==
    {PyNone, PyBool(TRUE), PyBool(FALSE), PyInt(1), PyInt(0), PyInt(2),
     PyStr(<<>>), PyStr(<<"1">>), PyStr(<<"0">>),
     PyStr(<<"t", "r", "u", "e">>), PyStr(<<"T", "r", "u", "e">>),
     PyStr(<<"T", "R", "U", "E">>), PyStr(<<"f", "a", "l", "s", "e">>),
     PyList(<<"1">>)}

MemoValues ==
    {PyNone, PyStr(<<>>), PyStr(<<"h", "i">>), PyInt(5), PyInt(0),
     PyBool(TRUE), PyList(<<"a", "b", "c">>)}

\* transactions with one field present, and a few with several
TxSet ==
    {EmptyTx}
    \cup {[EmptyTx EXCEPT !.ts = v] : v \in TsValues}
    \cup {[EmptyTx EXCEPT !.amount = v] : v \in AmountValues}
    \cup {[EmptyTx EXCEPT !.status = v] : v \in StatusValues}
    \cup {[EmptyTx EXCEPT !.retry = v] : v \in RetryValues}
    \cup {[EmptyTx EXCEPT !.memo = v] : v \in MemoValues}
    \cup {[ts |-> PyInt(HourMs), amount |-> PyInt(5),
           status |-> PyStr(<<"q", "u", "e", "u", "e", "d">>),
           retry |-> r, memo |-> PyStr(<<"h", "i">>)] :
            r \in {PyBool(TRUE), PyStr(<<"f", "a", "l", "s", "e">>)}}
    \cup {[ts |-> PyInt(0), amount |-> PyInt(5), status |-> Absent,
           retry |-> PyBool(TRUE), memo |-> Absent]}

\* payloads delivered by the event source
LoopTxSet ==
    {EmptyTx,
     [EmptyTx EXCEPT !.retry = PyBool(TRUE)],
     [EmptyTx EXCEPT !.ts = PyInt(24 * HourMs - 1)],
     [EmptyTx EXCEPT !.memo = PyInt(5)]}

StdScaler == [kind |-> "std", mean |-> <<2, 1, 0, 0, 0, 0, 0>>]
JunkScaler == [kind |-> "junk", mean |-> ZeroVec]
NoProbaClf == [kind |-> "none", bias |-> 0, w |-> ZeroVec]
ClfHour == [kind |-> "linear", bias |-> 1000,
            w |-> <<0, 400, 2000, 0, 0, 0, 0>>]
ClfAmount == [kind |-> "linear", bias |-> 8000,
              w |-> <<-2000, 0, 1200, 0, 0, 0, 0>>]
Iso(r) == [kind |-> "fitted", rawv |-> r]

File(k, m) == [kind |-> k, obj |-> m]

\* contents the model file can have when the agent is constructed
StoreContents ==
    {File("missing", DefaultModel), File("corrupt", DefaultModel),
     File("wrongkeys", DefaultModel)}
    \cup {File("dict", m) : m \in
            {[scaler |-> NoScaler, clf |-> ClfHour, iso |-> NoIso],
             [scaler |-> StdScaler, clf |-> ClfHour, iso |-> Iso(-1000)],
             [scaler |-> JunkScaler, clf |-> ClfHour, iso |-> NoIso],
             [scaler |-> NoScaler, clf |-> NoProbaClf, iso |-> Iso(2000)],
             [scaler |-> NoScaler, clf |-> UnfittedClf, iso |-> Iso(800000)],
             [scaler |-> NoScaler, clf |-> ClfAmount, iso |-> Iso(-800000)],
             [scaler |-> StdScaler, clf |-> ClfAmount, iso |-> UnfittedIso],
             [scaler |-> NoScaler, clf |-> ClfAmount, iso |-> NoIso]}}

RISK_THRESHOLD == 7000

Thresholds == {RISK_THRESHOLD, 3000, 9500}

MaxTicks == 1

\* wall-clock readings: 02:00 on the first day, then every 12 hours
ClockValues == {(2 + 12 * k) * HourMs : k \in 0..MaxTicks}

DeliveryOutcomes == {"ok2xx", "non2xx", "timeout", "neterror"}

NoMsg == [form |-> "none", event |-> Absent, payloadKind |-> "absent",
          payload |-> EmptyTx]

Str_payment_new == <<"p", "a", "y", "m", "e", "n", "t", ":", "n", "e", "w">>
Str_payment_ == <<"p", "a", "y", "m", "e", "n", "t", ":">>
Str_payments == <<"p", "a", "y", "m", "e", "n", "t", "s">>
Str_Payment_new == <<"P", "a", "y", "m", "e", "n", "t", ":", "n", "e", "w">>

EventValues ==
    {Absent, PyNone, PyStr(<<>>), PyStr(Str_payment_new), PyStr(Str_payment_),
     PyStr(Str_payments), PyStr(Str_Payment_new), PyInt(5), PyInt(0),
     PyBool(TRUE), PyList(<<"p">>)}

\* what ws.recv() can return: text that is not JSON, JSON that is not an
\* object (a list, a number, a string, null), or an object
Messages ==
    {[NoMsg EXCEPT !.form = "garbage"], [NoMsg EXCEPT !.form = "scalar"]}
    \cup {[form |-> "object", event |-> e, payloadKind |-> k,
           payload |-> EmptyTx] :
            e \in EventValues, k \in {"absent", "none", "str"}}
    \cup {[form |-> "object", event |-> e, payloadKind |-> "dict",
           payload |-> t] : e \in EventValues, t \in LoopTxSet}

NoResult == [status |-> "none", raisedIn |-> "", tx |-> EmptyTx, at |-> 0, feats |-> ZeroFeats,
             risk |-> 0, level |-> "none", posts |-> <<>>, logs |-> <<>>]

\* the trainer, the feedback writers, the extractor comparison and the
\* payment agent when they are not running
NoTrainer == [pc |-> "off"]
NoFeedbackFile == [exists |-> FALSE, data |-> <<>>]
NoWriters == <<>>
NoExt == [status |-> "off"]
NoPay == [pc |-> "off"]

AuxOff ==
    /\ trainer = NoTrainer
    /\ fb = NoFeedbackFile
    /\ writers = NoWriters
    /\ ext = NoExt
    /\ pay = NoPay

----------------------------------------------------------------------------
(* The agent used through process_tx (score mode and library use) *)

\* FraudDetectionAgent.__init__
Init ==
    /\ store \in StoreContents
    /\ model = load(store)
    /\ threshold \in Thresholds
    /\ now \in ClockValues
    /\ pc = "Idle"
    /\ raw = NoMsg
    /\ result = NoResult
    /\ AuxOff

\* time passes
Tick ==
    /\ \E c \in ClockValues : c > now /\ now' = c
    /\ UNCHANGED <<store, model, threshold, pc, raw, result>>
    /\ UNCHANGED aux

\* agent.process_tx(tx)
ProcessTx ==
    /\ pc = "Idle"
    /\ \E t \in TxSet, o \in DeliveryOutcomes :
          result' = process_tx(model, threshold, t, now, o)
    /\ UNCHANGED <<store, model, threshold, now, pc, raw>>
    /\ UNCHANGED aux

Next == Tick \/ ProcessTx

Spec == Init /\ [][Next]_vars

----------------------------------------------------------------------------
(* listen_ws *)

InitListen ==
    /\ store \in StoreContents
    /\ model = load(store)
    /\ threshold \in Thresholds
    /\ now \in ClockValues
    /\ pc = "Listening"
    /\ raw = NoMsg
    /\ result = NoResult
    /\ AuxOff

\* raw = await ws.recv()
Recv ==
    /\ pc = "Listening"
    /\ \E m \in Messages : raw' = m
    /\ pc' = "Decoding"
    /\ UNCHANGED <<store, model, threshold, now, result>>
    /\ UNCHANGED aux

\* ws.recv() raises ConnectionClosed
ConnLost ==
    /\ pc = "Listening"
    /\ pc' = "Closed"
    /\ UNCHANGED <<store, model, threshold, now, raw, result>>
    /\ UNCHANGED aux

\* the variant looks for "payment" only, without the colon
DecodeTarget_anyprefix(m) ==
    IF m.form = "garbage" THEN "Listening"
    ELSE IF m.form # "object" THEN "Crashed"
    ELSE IF ~Truthy(Get(m.event)) \/ m.payloadKind # "dict" THEN "Listening"
    ELSE IF m.event.t # "str" THEN "Crashed"
    ELSE IF startswith(m.event.s, SubSeq(Str_payment_, 1, 7))
         THEN "Dispatching"
    ELSE "Listening"

\* where the code from json.loads(raw) to event.startswith leads
DecodeTarget(m) ==
    IF m.form = "garbage" THEN "Listening"
    ELSE IF m.form # "object" THEN "Crashed"
    ELSE IF ~Truthy(Get(m.event)) \/ m.payloadKind # "dict" THEN "Listening"
    ELSE IF m.event.t # "str" THEN "Crashed"
    ELSE IF startswith(m.event.s, Str_payment_) THEN "Dispatching"
    ELSE "Listening"

Decode ==
    /\ pc = "Decoding"
    /\ pc' = DecodeTarget(raw)
    /\ UNCHANGED <<store, model, threshold, now, raw, result>>
    /\ UNCHANGED aux

\* out = self.process_tx(payload); logger.info("tx scored", ...)
Dispatch ==
    /\ pc = "Dispatching"
    /\ \E o \in DeliveryOutcomes :
          result' = process_tx(model, threshold, raw.payload, now, o)
    /\ pc' = IF result'.status = "raised" THEN "Crashed" ELSE "Listening"
    /\ UNCHANGED <<store, model, threshold, now, raw>>
    /\ UNCHANGED aux

NextListen == Tick \/ Recv \/ ConnLost \/ Decode \/ Dispatch

SpecListen == InitListen /\ [][NextListen]_vars

----------------------------------------------------------------------------
(* classify on its own *)

ClassifyThresholds == {0, 3000, 4000, RISK_THRESHOLD, 9000, 9500, One}

GridStep == 50

\* risks: a grid over [0,1] and the neighbours of every band boundary
ProbGrid ==
    {g * GridStep : g \in 0..(One \div GridStep)}
    \cup {q \in {b + d : b \in ClassifyThresholds \cup {4000, 9000},
                         d \in {-1, 1}} : q >= 0 /\ q <= One}

InitClassify ==
    /\ store = File("missing", DefaultModel)
    /\ model = load(store)
    /\ threshold \in ClassifyThresholds
    /\ now = 0
    /\ pc = "Classify"
    /\ raw = NoMsg
    /\ result = NoResult
    /\ AuxOff

\* agent.classify(p)
Classify ==
    /\ pc = "Classify"
    /\ \E p \in ProbGrid :
          result' = [NoResult EXCEPT !.status = "classified", !.risk = p,
                                     !.level = classify(p, threshold)]
    /\ UNCHANGED <<store, model, threshold, now, pc, raw>>
    /\ UNCHANGED aux

NextClassify == Classify

SpecClassify == InitClassify /\ [][NextClassify]_vars

----------------------------------------------------------------------------
(* train_fraud_model.py *)

MaxRows == 5

Str_queued == <<"q", "u", "e", "u", "e", "d">>

\* rows of the CSV file as row.to_dict() hands them to the extractor: a
\* legitimate payment, a fraudulent one, and a row of a file whose memo
\* column holds numbers
RowLegit == [tx |-> [ts |-> PyInt(HourMs), amount |-> PyInt(5),
                     status |-> PyStr(Str_queued), retry |-> PyBool(FALSE),
                     memo |-> PyStr(<<"h", "i">>)],
             label |-> 0]
RowFraud == [tx |-> [ts |-> PyInt(24 * HourMs - 1), amount |-> PyInt(-3),
                     status |-> PyStr(Str_queued), retry |-> PyBool(TRUE),
                     memo |-> PyStr(<<>>)],
             label |-> 1]
RowNumericMemo == [tx |-> [RowLegit.tx EXCEPT !.memo = PyInt(5)], label |-> 0]

RowSet == {RowLegit, RowFraud, RowNumericMemo}

Datasets == UNION {[1..n -> RowSet] : n \in 0..MaxRows}

\* the values of a feature dict in the order of its sorted keys
Vector(feats) == [i \in 1..Len(cols) |-> feats[cols[i]]]

\* featurize: raised when the extractor raises on a row
featurize(df, clock) ==
    LET ex == [i \in 1..Len(df) |-> _extract_features_train(df[i].tx, clock)]
    IN  IF \E i \in 1..Len(df) : ex[i].raised
        THEN [raised |-> TRUE, X |-> <<>>, y |-> <<>>, cols |-> <<>>]
        ELSE [raised |-> FALSE,
              X |-> [i \in 1..Len(df) |-> Vector(ex[i].feats)],
              y |-> [i \in 1..Len(df) |-> df[i].label],
              cols |-> IF Len(df) > 0 THEN cols ELSE <<>>]

Classes(y, S) == {y[i] : i \in S}
CountOf(y, S, k) == Cardinality({i \in S : y[i] = k})

\* test_size = 0.25: n_test = ceil(0.25 * n), n_train = n - n_test
NTest(n) == (n + 3) \div 4
NTrain(n) == n - NTest(n)

\* the checks of train_test_split(..., stratify = y) that raise ValueError
SplitRaises(y) ==
    LET n == Len(y)
        all == 1..n
        k == Cardinality(Classes(y, all))
    IN  \/ NTrain(n) = 0
        \/ \E c \in Classes(y, all) : CountOf(y, all, c) < 2
        \/ NTrain(n) < k
        \/ NTest(n) < k

\* the training index sets a stratified split can produce: every class
\* gets the floor of its share, the rows left go to the classes with the
\* largest remainders
TrainSets(y) ==
    LET n == Len(y)
        all == 1..n
        share(c) == (CountOf(y, all, c) * NTrain(n)) \div n
        rest(c) == (CountOf(y, all, c) * NTrain(n)) % n
    IN  {S \in SUBSET all :
            /\ Cardinality(S) = NTrain(n)
            /\ \A c \in Classes(y, all) :
                  CountOf(y, S, c) \in {share(c), share(c) + 1}
            /\ \A c, d \in Classes(y, all) :
                  (CountOf(y, S, c) > share(c) /\ CountOf(y, S, d) = share(d))
                      => rest(c) >= rest(d)}

RECURSIVE SumOver(_, _, _)
SumOver(X, S, j) ==
    IF S = {} THEN 0
    ELSE LET i == CHOOSE i \in S : TRUE
         IN  X[i][j] + SumOver(X, S \ {i}, j)

\* StandardScaler().fit: the column means of the training rows
fit_scaler(X, S) ==
    [kind |-> "std",
     mean |-> [j \in 1..Len(cols) |-> SumOver(X, S, j) \div Cardinality(S)]]

\* the classifiers LogisticRegression.fit can come out with
FittedClfs == {ClfHour, ClfAmount}

\* LogisticRegression.fit accepts the labels: it raises ValueError on
\* labels of a single class; the variant accepts every label vector
fit_accepts_any(y, S) == TRUE
fit_accepts(y, S) == Cardinality(Classes(y, S)) >= 2

\* FraudModel.save: joblib.dump of the three estimators
save(m) == File("dict", [scaler |-> m.scaler, clf |-> m.clf, iso |-> m.iso])

NewTrainer(df) ==
    [pc |-> "start", failedAt |-> "", data |-> df, cols |-> <<>>, X |-> <<>>,
     y |-> <<>>, train |-> {}, built |-> DefaultModel, auc |-> ""]

InitTrain ==
    /\ store \in {File("missing", DefaultModel),
                  File("dict", [scaler |-> NoScaler, clf |-> ClfHour,
                                iso |-> NoIso])}
    /\ model = DefaultModel
    /\ threshold = RISK_THRESHOLD
    /\ now \in ClockValues
    /\ pc = "NotStarted"
    /\ raw = NoMsg
    /\ result = NoResult
    /\ trainer \in {NewTrainer(df) : df \in Datasets}
    /\ fb = NoFeedbackFile
    /\ writers = NoWriters
    /\ ext = NoExt
    /\ pay = NoPay

TrainFrame == <<model, threshold, now, pc, raw, result, fb, writers, ext, pay>>

Failed(at) == [trainer EXCEPT !.pc = "failed", !.failedAt = at]

\* df = load_dataset(args.data); X, y, cols = featurize(df);
\* if len(X) == 0: raise SystemExit("No data rows")
Featurize ==
    /\ trainer.pc = "start"
    /\ LET f == featurize(trainer.data, now)
       IN  trainer' =
              IF f.raised THEN Failed("featurize")
              ELSE IF Len(f.X) = 0 THEN Failed("empty")
              ELSE [trainer EXCEPT !.pc = "featurized", !.X = f.X,
                                   !.y = f.y, !.cols = f.cols]
    /\ UNCHANGED <<store, TrainFrame>>

\* X_tr, X_te, y_tr, y_te = train_test_split(...)
Split ==
    /\ trainer.pc = "featurized"
    /\ IF SplitRaises(trainer.y)
       THEN trainer' = Failed("split")
       ELSE \E S \in TrainSets(trainer.y) :
               trainer' = [trainer EXCEPT !.pc = "split", !.train = S]
    /\ UNCHANGED <<store, TrainFrame>>

\* model = train(X_tr, y_tr)
Train ==
    /\ trainer.pc = "split"
    /\ IF fit_accepts(trainer.y, trainer.train)
       THEN \E c \in FittedClfs :
               trainer' = [trainer EXCEPT
                   !.pc = "trained",
                   !.built = [scaler |-> fit_scaler(trainer.X, trainer.train),
                              clf |-> c, iso |-> Iso(-1000)]]
       ELSE trainer' = Failed("train")
    /\ UNCHANGED <<store, TrainFrame>>

\* metrics = evaluate(model, X_te, y_te): the AUC is nan when the test
\* labels hold one class
Evaluate ==
    /\ trainer.pc = "trained"
    /\ LET test == (1..Len(trainer.y)) \ trainer.train
       IN  trainer' = [trainer EXCEPT
               !.pc = "evaluated",
               !.auc = IF Cardinality(Classes(trainer.y, test)) > 1
                       THEN "number" ELSE "nan"]
    /\ UNCHANGED <<store, TrainFrame>>

\* os.makedirs(...); model.save(args.out); print(...)
Save ==
    /\ trainer.pc = "evaluated"
    /\ store' = save(trainer.built)
    /\ trainer' = [trainer EXCEPT !.pc = "saved"]
    /\ UNCHANGED TrainFrame

\* FraudDetectionAgent.__init__ in a process started once training is over
StartAgent ==
    /\ trainer.pc \in {"saved", "failed"}
    /\ pc = "NotStarted"
    /\ model' = load(store)
    /\ pc' = "Idle"
    /\ UNCHANGED <<store, threshold, now, raw, result, aux>>

NextTrain == Featurize \/ Split \/ Train \/ Evaluate \/ Save \/ StartAgent

SpecTrain == InitTrain /\ [][NextTrain]_vars

----------------------------------------------------------------------------
(* FraudDetectionAgent.feedback, called by several scoring instances *)

NumWriters == 2
MaxRecords == 2

Writers == 1..NumWriters

TxIds == {"tx-a", "tx-b"}

LabelValues ==
    {PyInt(0), PyInt(1), PyInt(2), PyBool(TRUE), PyStr(<<"a", "b", "c">>)}

\* int(x): ok = FALSE stands for the ValueError / TypeError it raises
int(v) ==
    IF v.t = "int" THEN [ok |-> TRUE, v |-> v.n]
    ELSE IF v.t = "bool" THEN [ok |-> TRUE, v |-> IF v.b THEN 1 ELSE 0]
    ELSE IF v.t = "str" /\ v.s # <<>> /\ \A i \in 1..Len(v.s) : IsDigit(v.s[i])
         THEN [ok |-> TRUE, v |-> DigitsVal(v.s)]
    ELSE [ok |-> FALSE, v |-> 0]

\* the file is a sequence of tokens: the JSON text of a record, or "\n"
Rec(id, label) == [k |-> "rec", txId |-> id, label |-> label]
Newline == [k |-> "nl", txId |-> "", label |-> 0]

\* json.dumps({"txId": tx_id, "label": int(label)}) + "\n"
Line(id, label) == <<Rec(id, label), Newline>>

\* open(path, "a") creates the file when it is absent and keeps what it
\* holds; the variant is open(path, "w")
open_truncate(f) == [exists |-> TRUE, data |-> <<>>]
open_append(f) == [exists |-> TRUE, data |-> f.data]

\* the buffer reaches the file in one write at the end of the with block;
\* O_APPEND puts it after whatever the file holds at that moment
flush(f, buf) == [f EXCEPT !.data = f.data \o buf]

IdleWriter == [pc |-> "idle", txId |-> "", label |-> PyNone, buf |-> <<>>]

NoFile == [exists |-> FALSE, data |-> <<>>]

InitFeedback ==
    /\ store = File("missing", DefaultModel)
    /\ model = load(store)
    /\ threshold = RISK_THRESHOLD
    /\ now = 0
    /\ pc = "Idle"
    /\ raw = NoMsg
    /\ result = NoResult
    /\ trainer = NoTrainer
    /\ fb \in {NoFile, [exists |-> TRUE, data |-> Line("tx-0", 1)]}
    /\ writers = [w \in Writers |-> IdleWriter]
    /\ ext = NoExt
    /\ pay = NoPay

FeedbackFrame ==
    <<store, model, threshold, now, pc, raw, result, trainer, ext, pay>>

InProgress == {w \in Writers : writers[w].pc # "idle"}

\* feedback(tx_id, label) is entered: os.makedirs(...); open(path, "a")
Call(w) ==
    /\ writers[w].pc = "idle"
    /\ Len(fb.data) \div 2 + Cardinality(InProgress) < MaxRecords
    /\ \E id \in TxIds, l \in LabelValues :
          writers' = [writers EXCEPT ![w] =
              [pc |-> "opened", txId |-> id, label |-> l, buf |-> <<>>]]
    /\ fb' = open_append(fb)
    /\ UNCHANGED FeedbackFrame

\* f.write(json.dumps({..., "label": int(label)}) + "\n") fills the buffer
\* of f; when int(label) raises, the with block closes f with nothing
\* written and the exception leaves feedback
Format(w) ==
    /\ writers[w].pc = "opened"
    /\ LET l == int(writers[w].label)
       IN  writers' = [writers EXCEPT ![w] =
              IF l.ok
              THEN [@ EXCEPT !.pc = "buffered",
                             !.buf = Line(writers[w].txId, l.v)]
              ELSE IdleWriter]
    /\ UNCHANGED <<fb, FeedbackFrame>>

\* the with block ends: f is flushed and closed, feedback returns
Close(w) ==
    /\ writers[w].pc = "buffered"
    /\ fb' = flush(fb, writers[w].buf)
    /\ writers' = [writers EXCEPT ![w] = IdleWriter]
    /\ UNCHANGED FeedbackFrame

NextFeedback == \E w \in Writers : Call(w) \/ Format(w) \/ Close(w)

SpecFeedback == InitFeedback /\ [][NextFeedback]_vars

----------------------------------------------------------------------------
(* The two copies of _extract_features on the same transaction *)

IdleExt == [status |-> "none", tx |-> EmptyTx, at |-> 0,
            scoring |-> [raised |-> FALSE, feats |-> ZeroFeats],
            training |-> [raised |-> FALSE, feats |-> ZeroFeats]]

InitExtract ==
    /\ store = File("missing", DefaultModel)
    /\ model = load(store)
    /\ threshold = RISK_THRESHOLD
    /\ now \in ClockValues
    /\ pc = "Idle"
    /\ raw = NoMsg
    /\ result = NoResult
    /\ trainer = NoTrainer
    /\ fb = NoFeedbackFile
    /\ writers = NoWriters
    /\ ext = IdleExt
    /\ pay = NoPay

\* fraud-detection-agent._extract_features(tx) and
\* fraud_detection_agent._extract_features(tx) at the same clock reading
ExtractBoth ==
    /\ \E t \in TxSet :
          ext' = [status |-> "done", tx |-> t, at |-> now,
                  scoring |-> _extract_features(t, now),
                  training |-> _extract_features_train(t, now)]
    /\ UNCHANGED <<store, model, threshold, now, pc, raw, result,
                   trainer, fb, writers, pay>>

NextExtract == Tick \/ ExtractBoth

SpecExtract == InitExtract /\ [][NextExtract]_vars

----------------------------------------------------------------------------
(* payment_agent.py: intent parsing, risk assessment, decision *)

Str_allow == <<"a", "l", "l", "o", "w">>
Str_Allow == <<"A", "l", "l", "o", "w">>
Str_block == <<"b", "l", "o", "c", "k">>
Str_review == <<"r", "e", "v", "i", "e", "w">>
Str_rules_ == <<"r", "u", "l", "e", "s", ":">>
Str_risk_block == <<"r", "i", "s", "k", "_", "b", "l", "o", "c", "k">>
Str_ok == <<"o", "k">>

MicroPerStx == 1000000
MemoMax == 200
MemoMin == 3

\* what the three regular expressions of parse_instruction find in a text:
\* the first number (whole and fractional digits; huge = more digits than
\* a float can hold), its unit, the first principal, and the number of
\* characters that follow "for" / "because" / "memo"
Text(w, f, h, u, r, m) ==
    [whole |-> w, frac |-> f, huge |-> h, unit |-> u, principal |-> r,
     memoChars |-> m]

Instructions ==
    {Text(<<"2">>, <<>>, FALSE, "stx", "SPKNOWN01", 0),
     Text(<<"2", "0", "0", "0", "0">>, <<>>, FALSE, "", "SPNEW0001", 4),
     Text(<<"1">>, <<"5">>, FALSE, "ustx", "", 0),
     Text(<<"1">>, <<"5">>, FALSE, "stx", "SPKNOWN01", 500),
     Text(<<>>, <<>>, FALSE, "", "SPKNOWN01", 2),
     Text(<<"9">>, <<>>, TRUE, "stx", "SPKNOWN01", 0)}

\* an amount of micro-STX, kept as whole STX and the micro-STX beyond
\* them (Python integers have no upper limit)
Amt(s, m) == [stx |-> s + m \div MicroPerStx, micro |-> m % MicroPerStx]
AmtZero == Amt(0, 0)
AmtAdd(a, c) == Amt(a.stx + c.stx, a.micro + c.micro)
AmtTimes(a, n) == Amt(a.stx * n, a.micro * n)
AmtGreater(a, c) == a.stx > c.stx \/ (a.stx = c.stx /\ a.micro > c.micro)
AmtMax(a, c) == IF AmtGreater(c, a) THEN c ELSE a

\* int(round(val)) of whole.frac with at most one fractional digit:
\* Python rounds a half to the even neighbour
RoundHalfEven(whole, tenth) ==
    IF tenth > 5 \/ (tenth = 5 /\ whole % 2 = 1) THEN whole + 1 ELSE whole

\* amt_micro of parse_instruction, for a number that float() can hold
AmountMicro(text) ==
    LET whole == DigitsVal(text.whole)
        tenth == IF text.frac = <<>> THEN 0 ELSE DigitVal(text.frac[1])
        unit == IF text.unit = "" THEN "stx" ELSE text.unit
    IN  IF text.whole = <<>> THEN AmtZero
        ELSE IF unit = "stx"
             THEN Amt(whole, tenth * (MicroPerStx \div 10))
        ELSE Amt(0, RoundHalfEven(whole, tenth))

NoMemo == [present |-> FALSE, len |-> 0]

\* memo = mm.group(1).strip() of the pattern (.{3,200})
MemoOf(text) ==
    IF text.memoChars >= MemoMin
    THEN [present |-> TRUE, len |-> Min(text.memoChars, MemoMax)]
    ELSE NoMemo

NoIntent == [amount |-> AmtZero, recipient |-> "", memo |-> NoMemo]

\* the field constraints of PaymentIntent
PaymentIntentValid(i) ==
    ~AmtGreater(AmtZero, i.amount)
    /\ (i.memo.present => i.memo.len <= MemoMax)

\* NLPProcessor.parse_instruction without an LLM key: round(inf) raises
\* OverflowError; the retry decorator has no reraise, so whatever the body
\* raises leaves as RetryError after the third attempt
parse_instruction(text) ==
    LET i == [amount |-> AmtMax(AmountMicro(text), AmtZero),
              recipient |-> IF text.principal = "" THEN "unknown"
                            ELSE text.principal,
              memo |-> MemoOf(text)]
    IN  IF text.whole # <<>> /\ text.huge
        THEN [raised |-> "RetryError", intent |-> NoIntent]
        ELSE IF ~PaymentIntentValid(i)
             THEN [raised |-> "RetryError", intent |-> NoIntent]
        ELSE [raised |-> "", intent |-> i]

\* a payment of the history: the backend's item or the context's record
Item(a, r) == [amount |-> a, recipient |-> r]

\* connector.recent_payments: the items, a list holding something that is
\* not an object, or an exception after the retries
HistoryOutcomes ==
    {[kind |-> "items", items |-> <<>>],
     [kind |-> "items", items |-> <<Item(Amt(0, 500000), "SPKNOWN01"),
                                    Item(Amt(0, 600000), "SPKNOWN01")>>],
     [kind |-> "junk", items |-> <<>>],
     [kind |-> "raises", items |-> <<>>]}

\* PaymentAgent._history
_history(h, context) ==
    IF h.kind = "raises" THEN [kind |-> "items", items |-> context] ELSE h

\* the external risk service: not configured or failing, or a riskScore
ExternalRisk == {[ok |-> FALSE, riskScore |-> 0], [ok |-> TRUE, riskScore |-> 50]}

RECURSIVE SumAmounts(_)
SumAmounts(items) ==
    IF items = <<>> THEN AmtZero
    ELSE AmtAdd(Head(items).amount, SumAmounts(Tail(items)))

\* 10_000_000_000 micro-STX
LargeAmount == Amt(10000, 0)
BlockScore == 70

NoRisk == [raised |-> "", score |-> 0, block |-> FALSE]

\* RiskAssessor.assess: h.get on an item that is not an object raises, and
\* the retry decorator turns it into RetryError
assess(intent, history, x) ==
    LET items == history.items
        total == SumAmounts(items)
        spike == /\ total # AmtZero
                 /\ AmtGreater(AmtTimes(intent.amount, Len(items)),
                               AmtTimes(total, 3))
        known == \E i \in 1..Len(items) : items[i].recipient = intent.recipient
        points == (IF spike THEN 30 ELSE 0) + (IF known THEN 0 ELSE 10)
                 + (IF AmtGreater(intent.amount, LargeAmount) THEN 20 ELSE 0)
                 + (IF x.ok THEN x.riskScore ELSE 0)
    IN  IF history.kind = "junk"
        THEN [raised |-> "RetryError", score |-> 0, block |-> FALSE]
        ELSE [raised |-> "", score |-> points, block |-> points >= BlockScore]

\* what connector.validate_rules does: it returns the JSON body (an object
\* with or without an action, or a list), returns {"action": "allow"} for
\* a response that is not ok, or raises after its retries
RulesOutcomes ==
    {[kind |-> "object", action |-> a] :
        a \in {Absent, PyNone, PyStr(Str_allow), PyStr(Str_Allow),
               PyStr(Str_block), PyStr(Str_review)}}
    \cup {[kind |-> k, action |-> Absent] : k \in {"list", "non2xx", "raises"}}

\* the variant takes a failed rules call for a "block"
RulesAction_closed(r) ==
    IF r.kind \in {"list", "non2xx"} THEN PyStr(Str_allow)
    ELSE IF r.kind = "raises" THEN PyStr(Str_block)
    ELSE GetDefault(r.action, PyStr(Str_allow))

\* the action decide works with: res.get("action", "allow"), and "allow"
\* when validate_rules or res.get raises
RulesAction(r) ==
    IF r.kind \in {"list", "raises", "non2xx"} THEN PyStr(Str_allow)
    ELSE GetDefault(r.action, PyStr(Str_allow))

NoRules == [kind |-> "none", action |-> Absent]

NoDecision == [raised |-> "", authorize |-> FALSE, reason |-> <<>>,
               risk_score |-> 0, action |-> <<>>]

\* DecisionEngine.decide without the test of risk["block"]
decide_rules_only(r, risk) ==
    LET action == RulesAction(r)
    IN  IF ~PyEq(action, PyStr(Str_allow))
        THEN IF action.t # "str"
             THEN [NoDecision EXCEPT !.raised = "ValidationError"]
             ELSE [raised |-> "", authorize |-> FALSE,
                   reason |-> Str_rules_ \o action.s,
                   risk_score |-> risk.score, action |-> action.s]
        ELSE [raised |-> "", authorize |-> TRUE, reason |-> Str_ok,
              risk_score |-> risk.score, action |-> Str_allow]

\* DecisionEngine.decide; DecisionOutcome(action = None) raises
\* ValidationError
decide(r, risk) ==
    LET action == RulesAction(r)
    IN  IF ~PyEq(action, PyStr(Str_allow))
        THEN IF action.t # "str"
             THEN [NoDecision EXCEPT !.raised = "ValidationError"]
             ELSE [raised |-> "", authorize |-> FALSE,
                   reason |-> Str_rules_ \o action.s,
                   risk_score |-> risk.score, action |-> action.s]
        ELSE IF risk.block
             THEN [raised |-> "", authorize |-> FALSE,
                   reason |-> Str_risk_block, risk_score |-> risk.score,
                   action |-> Str_block]
        ELSE [raised |-> "", authorize |-> TRUE, reason |-> Str_ok,
              risk_score |-> risk.score, action |-> Str_allow]

----------------------------------------------------------------------------
(* PaymentAgent.process_instruction *)

MaxRuns == 2

\* stop_after_attempt(3) of enqueue_payment and of initiate_payment
MaxAttempts == 3

\* the payments kept by ContextManager.record_payment
ContextCap == 200

\* what POST /payments can do: answer 2xx with a JSON object (with or
\* without a jobId), with a JSON list or with a body that is not JSON
\* (r.json() raises requests.JSONDecodeError, a RequestException), answer
\* with an error status (raise_for_status raises HTTPError), or time out
PostOutcomes ==
    {[kind |-> "object", jobId |-> "job-123", queued |-> TRUE],
     [kind |-> "object", jobId |-> "", queued |-> FALSE],
     [kind |-> "list", jobId |-> "", queued |-> FALSE],
     [kind |-> "bad_json", jobId |-> "", queued |-> FALSE],
     [kind |-> "http_error", jobId |-> "", queued |-> FALSE],
     [kind |-> "timeout", jobId |-> "", queued |-> FALSE]}

NoRes == [kind |-> "none", jobId |-> "", queued |-> FALSE]

NoOut == [kind |-> "", ok |-> FALSE, authorized |-> FALSE, reason |-> <<>>,
          risk |-> 0, jobId |-> "", queued |-> FALSE]

Raised == [NoOut EXCEPT !.kind = "raised"]
EnqueueFailed == [NoOut EXCEPT !.kind = "enqueue_failed"]

\* the item process_instruction hands to record_payment
Recorded(intent, res) ==
    [amount |-> intent.amount, recipient |-> intent.recipient,
     jobId |-> res.jobId]

Take(q, n) == SubSeq(q, 1, Min(Len(q), n))

\* ContextManager.record_payment
record_payment(context, item) == Take(<<item>> \o context, ContextCap)

NewRun(text, context, n) ==
    [pc |-> "start", run |-> n, text |-> text, intent |-> NoIntent,
     risk |-> NoRisk, rules |-> NoRules, decision |-> NoDecision,
     inner |-> 0, outer |-> 0, accepted |-> 0,
     posts |-> 0, res |-> NoRes, context |-> context, steps |-> <<>>,
     out |-> NoOut]

\* pay.accepted is the number of the first POST of the run that the backend
\* answered with a 2xx status, 0 while there is none

InitPay ==
    /\ store = File("missing", DefaultModel)
    /\ model = load(store)
    /\ threshold = RISK_THRESHOLD
    /\ now = 0
    /\ pc = "Idle"
    /\ raw = NoMsg
    /\ result = NoResult
    /\ trainer = NoTrainer
    /\ fb = NoFeedbackFile
    /\ writers = NoWriters
    /\ ext = NoExt
    /\ pay \in {NewRun(t, <<>>, 1) : t \in Instructions}

PayFrame ==
    <<store, model, threshold, now, pc, raw, result, trainer, fb, writers,
      ext>>

Step(name) == Append(pay.steps, name)

\* intent = self.understand(text); a ValidationError gives intent_invalid,
\* any other exception leaves process_instruction
Understand ==
    /\ pay.pc = "start"
    /\ LET u == parse_instruction(pay.text)
       IN  pay' =
              IF u.raised = "ValidationError"
              THEN [pay EXCEPT !.pc = "returned", !.steps = Step("understand"),
                       !.out = [NoOut EXCEPT !.kind = "intent_invalid"]]
              ELSE IF u.raised # ""
              THEN [pay EXCEPT !.pc = "raised", !.steps = Step("understand"),
                       !.out = Raised]
              ELSE [pay EXCEPT !.pc = "understood",
                       !.steps = Step("understand"), !.intent = u.intent]
    /\ UNCHANGED PayFrame

\* risk = self.assess_risk(agent_id, intent)
AssessRisk ==
    /\ pay.pc = "understood"
    /\ \E h \in HistoryOutcomes, x \in ExternalRisk :
          LET r == assess(pay.intent, _history(h, pay.context), x)
          IN  pay' =
                 IF r.raised # ""
                 THEN [pay EXCEPT !.pc = "raised", !.out = Raised,
                          !.steps = Step("assess_risk")]
                 ELSE [pay EXCEPT !.pc = "assessed", !.risk = r,
                          !.steps = Step("assess_risk")]
    /\ UNCHANGED PayFrame

\* where process_instruction goes once decide has returned; the variant
\* goes on to the enqueue whatever the decision
AfterDecide_always(d) == "enqueueing"
AfterDecide(d) == IF d.authorize THEN "enqueueing" ELSE "returned"

\* decision = self.decide(agent_id, intent, risk);
\* if not decision.authorize: return the denial
Decide ==
    /\ pay.pc = "assessed"
    /\ \E r \in RulesOutcomes :
          LET d == decide(r, pay.risk)
          IN  pay' =
                 IF d.raised # ""
                 THEN [pay EXCEPT !.pc = "raised", !.out = Raised,
                          !.rules = r, !.steps = Step("decide")]
                 ELSE IF AfterDecide(d) = "returned"
                 THEN [pay EXCEPT !.pc = "returned", !.rules = r,
                          !.decision = d, !.steps = Step("decide"),
                          !.out = [NoOut EXCEPT !.kind = "denied",
                                      !.reason = d.reason,
                                      !.risk = d.risk_score]]
                 ELSE [pay EXCEPT !.pc = "enqueueing", !.rules = r,
                          !.decision = d, !.steps = Step("decide"),
                          !.inner = 1, !.outer = 1]
    /\ UNCHANGED PayFrame

\* one requests.post of enqueue_payment.  enqueue_payment retries whatever
\* it raises up to MaxAttempts times and reraises; initiate_payment calls
\* it again, up to MaxAttempts times, when what it raised is a
\* RequestException
Post ==
    /\ pay.pc = "enqueueing"
    /\ \E o \in PostOutcomes :
          LET n == pay.posts + 1
              sent == [pay EXCEPT
                          !.posts = n,
                          !.steps = Step("enqueue"),
                          !.accepted =
                              IF @ = 0 /\ o.kind \in {"object", "list",
                                                      "bad_json"}
                              THEN n ELSE @]
          IN  pay' =
                 IF o.kind \in {"object", "list"}
                 THEN [sent EXCEPT !.pc = "enqueued", !.res = o]
                 ELSE IF pay.inner < MaxAttempts
                 THEN [sent EXCEPT !.inner = @ + 1]
                 ELSE IF pay.outer < MaxAttempts
                 THEN [sent EXCEPT !.inner = 1, !.outer = @ + 1]
                 ELSE [sent EXCEPT !.pc = "returned", !.out = EnqueueFailed]
    /\ UNCHANGED PayFrame

\* self.context.record_payment({..., "jobId": res.get("jobId")}) and the
\* return of the ok result; res.get on a list raises AttributeError, which
\* the except branch turns into enqueue_failed
Record ==
    /\ pay.pc = "enqueued"
    /\ pay' =
          IF pay.res.kind = "list"
          THEN [pay EXCEPT !.pc = "returned", !.out = EnqueueFailed]
          ELSE [pay EXCEPT
                   !.pc = "returned",
                   !.context = record_payment(pay.context,
                                              Recorded(pay.intent, pay.res)),
                   !.steps = Step("record_payment"),
                   !.out = [NoOut EXCEPT !.kind = "ok", !.ok = TRUE,
                               !.authorized = TRUE, !.jobId = pay.res.jobId,
                               !.queued = pay.res.queued]]
    /\ UNCHANGED PayFrame

\* the next call of process_instruction on the same agent
NextInstruction ==
    /\ pay.pc \in {"returned", "raised"}
    /\ pay.run < MaxRuns
    /\ \E t \in Instructions : pay' = NewRun(t, pay.context, pay.run + 1)
    /\ UNCHANGED PayFrame

NextPay ==
    Understand \/ AssessRisk \/ Decide \/ Post \/ Record \/ NextInstruction

SpecPay == InitPay /\ [][NextPay]_vars

----------------------------------------------------------------------------
(* Properties *)

Rank(level) ==
    CASE level = "low" -> 0
      [] level = "medium" -> 1
      [] level = "high" -> 2
      [] level = "critical" -> 3
      [] OTHER -> -1

\* a message that parses to an object with a string event name and an
\* object payload
IsEnvelope(m) ==
    m.form = "object" /\ m.event.t = "str" /\ m.payloadKind = "dict"

\* C1: every received message that fails to parse or is not an envelope
\* {event: name, payload: object} sends the loop from Decoding back to
\* Listening, and no message handled in Decoding or Dispatching terminates
\* the loop.
C1_SkipMalformed ==
    [][(pc \in {"Decoding", "Dispatching"} /\ pc' # pc)
          => /\ pc' # "Crashed"
             /\ (pc = "Decoding" /\ ~IsEnvelope(raw)) => pc' = "Listening"]_vars

Bands(p, t, level) ==
    /\ level \in {"low", "medium", "high", "critical"}
    /\ level = "critical" <=> p >= Max(t, 9000)
    /\ level = "high" <=> (t <= p /\ p < Max(t, 9000))
    /\ level = "medium" <=> (4000 <= p /\ p < t)

\* C2: classify(p) returns critical iff p >= max(t, 0.9), high iff
\* t <= p < max(t, 0.9), medium iff 0.4 <= p < t and low otherwise, and for
\* a fixed t a larger risk never gets a smaller severity.
C2_Bands ==
    [][result' # result
          => /\ Bands(result'.risk, threshold, result'.level)
             /\ (result.status = "classified" /\ result.risk <= result'.risk)
                   => Rank(result.level) <= Rank(result'.level)]_vars

\* a risk equal to the threshold, above 0.4 and below 0.9, classified high
C2_Witness ==
    /\ result.status = "classified"
    /\ result.risk = threshold
    /\ threshold = 7000
    /\ result.level = "high"

\* C3: process_tx invokes alert exactly once when the severity is high or
\* critical, and for low and medium makes no alert call and emits no alert
\* log record.
C3_AlertIffHighOrCritical ==
    result.status = "returned" =>
        IF result.level \in {"high", "critical"}
        THEN Len(result.posts) = 1 /\ Len(result.logs) = 1
        ELSE Len(result.posts) = 0 /\ Len(result.logs) = 0

\* a critical transaction processed with exactly one alert call
C3_Witness ==
    /\ pc = "Idle"
    /\ result.status = "returned"
    /\ result.level = "critical"
    /\ Len(result.posts) = 1
    /\ Len(result.logs) = 1

SameAssessment(r, q) == r.risk = q.risk /\ r.level = q.level

\* C4: whatever the delivery outcome, alert returns, the local log record
\* (transaction, rounded risk, severity) is emitted, process_tx returns the
\* risk and level it returns on a successful delivery, and the loop goes
\* back to Listening.
C4_DeliveryFailureSwallowed ==
    [][(pc = "Dispatching" /\ pc' # pc /\ Len(result'.posts) > 0)
          => /\ pc' = "Listening"
             /\ result'.status = "returned"
             /\ result'.logs = <<[tx |-> result'.tx,
                                  risk |-> round3(result'.risk),
                                  level |-> result'.level]>>
             /\ SameAssessment(result', process_tx(model, threshold,
                                   result'.tx, result'.at, "ok2xx"))]_vars

\* an alert whose delivery timed out, after which the loop listens again
C4_Witness ==
    /\ pc = "Listening"
    /\ result.status = "returned"
    /\ Len(result.posts) = 1
    /\ result.posts[1].outcome = "timeout"
    /\ Len(result.logs) = 1

\* C5: with the model file missing or corrupt, every process_tx returns
\* risk 0.5 and level classify(0.5), for every transaction.
C5_DegradedMode ==
    (store.kind # "dict" /\ result.status # "none")
        => /\ result.status = "returned"
           /\ result.risk = 5000
           /\ result.level = classify(5000, threshold)

\* C6: score never raises once the feature dict was extracted, whatever
\* the loaded artifact: a failing scaler, classifier or anomaly detector
\* is replaced by its default.
C6_ScoreNeverRaises ==
    result.status = "raised" => result.raisedIn = "extract"

C8_ExtractorTotal ==
    /\ result.raisedIn # "extract"
    /\ (result.status = "returned" /\ result.tx = EmptyTx)
          => /\ result.feats.amount = 0
             /\ result.feats.is_retry = 0
             /\ result.feats.memo_len = 0
             /\ result.feats.st_success = 0
             /\ result.feats.st_failed = 0
             /\ result.feats.st_queued = 0

\* the retry values the specification accepts: true, 1, and "1" / "true"
\* in any letter case
RetryTruth(v) ==
    \/ v.t = "bool" /\ v.b
    \/ v.t = "int" /\ v.n = 1
    \/ v.t = "str" /\ lower(v.s) \in {<<"1">>, <<"t", "r", "u", "e">>}

\* C9: is_retry is 1 exactly when retry is true, 1, "1" or "true" in any
\* letter case, and 0 for every other value.
C9_IsRetry ==
    (result.status # "none" /\ result.raisedIn # "extract")
        => result.feats.is_retry = Flag(RetryTruth(result.tx.retry))

\* C10: two evaluations of a transaction that carries an integer timestamp
\* (0 included), under the same artifact and at different clock readings,
\* give the same feature vector and the same risk.
C10_Deterministic ==
    [][(/\ result.status # "none"
        /\ result'.status # "none"
        /\ result'.tx = result.tx
        /\ result.tx.ts.t = "int")
          => /\ result'.feats = result.feats
             /\ result'.risk = result.risk
             /\ result'.feats.hour \in 0..23]_vars

\* the artifact object holds the feature column order `order`
CarriesOrder(obj, order) ==
    "feature_order" \in DOMAIN obj /\ obj.feature_order = order

\* C11: the persisted artifact carries the feature column order it was
\* trained with (the trainer embeds it on save) and the scorer checks it at
\* load: an artifact that does not carry the extractor's sorted key order
\* is never the model the agent scores with.
C11_FeatureOrderChecked ==
    /\ trainer.pc = "saved" => CarriesOrder(store.obj, trainer.cols)
    /\ (pc = "Idle" /\ model # DefaultModel) => CarriesOrder(store.obj, cols)

\* C15: the artifact store changes only in the save step of main, after
\* featurize, split, train and evaluate have completed on a dataset that
\* is not empty and whose training labels hold two classes; a run that
\* fails leaves the store as it was.
C15_SaveOnlyAfterValidTraining ==
    [][/\ store' # store =>
             /\ trainer.pc = "evaluated" /\ trainer'.pc = "saved"
             /\ Len(trainer.data) > 0
             /\ Cardinality(Classes(trainer.y, trainer.train)) >= 2
       /\ trainer'.pc = "failed" => store' = store
       /\ (trainer.pc = "start" /\ Len(trainer.data) = 0)
              => trainer'.pc = "failed"
       /\ (trainer.pc = "split"
           /\ Cardinality(Classes(trainer.y, trainer.train)) < 2)
              => trainer'.pc = "failed"]_vars

\* a run on single-class training labels has failed in train
C15_Witness ==
    /\ trainer.pc = "failed"
    /\ trainer.failedAt = "train"
    /\ Cardinality(Classes(trainer.y, trainer.train)) = 1
    /\ store = File("missing", DefaultModel)

\* the file holds complete record lines only
WellFormed(data) ==
    /\ Len(data) % 2 = 0
    /\ \A i \in 1..Len(data) :
          data[i].k = IF i % 2 = 1 THEN "rec" ELSE "nl"

C13_LabelBinary ==
    \A i \in 1..Len(fb.data) : fb.data[i].k = "rec" => fb.data[i].label \in {0, 1}

\* an envelope whose event name starts with the eight characters "payment:"
IsPaymentEnvelope(m) ==
    /\ IsEnvelope(m)
    /\ Len(m.event.s) >= 8
    /\ SubSeq(m.event.s, 1, 8) = <<"p", "a", "y", "m", "e", "n", "t", ":">>

\* C14: a decoded message goes on to process_tx if and only if it is a
\* well-formed envelope whose event name starts with "payment:" and whose
\* payload is an object; process_tx runs on nothing but the payload of such
\* a message, so any other message causes no scoring and no alert.
C14_ScoredIffPaymentEnvelope ==
    [][/\ (pc = "Decoding" /\ pc' # pc)
             => (pc' = "Dispatching" <=> IsPaymentEnvelope(raw))
       /\ result' # result
             => /\ pc = "Dispatching"
                /\ IsPaymentEnvelope(raw)
                /\ result'.tx = raw.payload]_vars

\* a "payment:new" envelope was scored and the loop listens again
C14_Witness ==
    /\ pc = "Listening"
    /\ raw.form = "object"
    /\ raw.event = PyStr(Str_payment_new)
    /\ result.status = "returned"
    /\ result.tx = raw.payload

\* C16: the ingestion loop shuts down cleanly and is terminal only on
\* connection loss or explicit shutdown.  listen_ws has no shutdown request
\* to accept, so the loop may leave Listening, Decoding and Dispatching for
\* good only through the loss of the connection.
C16_TerminalOnlyOnLossOrShutdown ==
    [][(pc \in {"Listening", "Decoding", "Dispatching"}
        /\ pc' \notin {"Listening", "Decoding", "Dispatching"})
          => pc = "Listening" /\ pc' = "Closed"]_vars

\* C19: the training-time extractor and the scoring-time extractor are
\* equivalent: on the same transaction at the same time both raise or both
\* return the same feature vector.
C19_ExtractorsAgree ==
    ext.status = "done" => ext.scoring = ext.training

\* the classifier sub-score p of score: predict_proba, or the default 0.5
SubScoreP(m, X) ==
    LET pp == predict_proba(m.clf, X)
    IN  IF HasPredictProba(m.clf) /\ pp.ok THEN pp.v ELSE DefaultP

\* the anomaly sub-score s the claim describes: the squashed anomaly score,
\* or the default sub-score 0.5 when the detector fails
SubScoreS(m, X) ==
    LET ss == score_samples(m.iso, X)
        sq == squash(-ss.v)
    IN  IF ss.ok /\ sq.ok THEN sq.v ELSE DefaultP

BlendClaimed(m, X) ==
    IF m.iso.kind # "none"
    THEN clamp((SubScoreP(m, X) + SubScoreS(m, X)) \div 2)
    ELSE clamp(SubScoreP(m, X))

RiskMatches(m, f, risk) == f.raised \/ risk = BlendClaimed(m, f.X)

\* C20: whenever the artifact has an anomaly detector, the risk returned by
\* score is clamp(0.5 * p + 0.5 * s), with s the squashed anomaly score or
\* its default when the detector fails; only when the artifact has no
\* anomaly detector is the risk clamp(p).
C20_BlendWheneverDetector ==
    result.status # "none"
        => RiskMatches(model, features(model, result.tx, result.at),
                       result.risk)

\* the action the rules backend named: the string in its answer, and
\* "allow" when the answer names none
RulesSaid(r) ==
    IF r.kind = "object" /\ r.action.t = "str" THEN r.action.s
    ELSE <<"a", "l", "l", "o", "w">>

Allow(r) == RulesSaid(r) = <<"a", "l", "l", "o", "w">>

StepNo(name) ==
    CASE name = "understand" -> 1
      [] name = "assess_risk" -> 2
      [] name = "decide" -> 3
      [] name = "enqueue" -> 4
      [] name = "record_payment" -> 5

\* understand, assess_risk, decide, one or more enqueue, record_payment,
\* or a beginning of that
InOrder(steps) ==
    /\ steps # <<>> => steps[1] = "understand"
    /\ \A i \in 2..Len(steps) :
          \/ StepNo(steps[i]) = StepNo(steps[i - 1]) + 1
          \/ steps[i] = "enqueue" /\ steps[i - 1] = "enqueue"

Has(steps, name) == \E i \in 1..Len(steps) : steps[i] = name

\* C18: in every run of process_instruction the steps occur in the order
\* understand, assess_risk, decide, enqueue, record_payment; enqueue is
\* attempted only after decide returned authorize = True; a denied run has
\* no enqueue and no context record; the context changes only after an
\* enqueue succeeded; the ok result has ok = True, authorized = True and the
\* jobId the backend returned.
C18_StepOrder ==
    [][/\ InOrder(pay'.steps)
       /\ pay'.posts > pay.posts
             => pay.decision.raised = "" /\ pay.decision.authorize
       /\ pay'.out.kind = "denied"
             => /\ ~Has(pay'.steps, "enqueue")
                /\ ~Has(pay'.steps, "record_payment")
                /\ pay'.context = pay.context
       /\ pay'.context # pay.context
             => /\ pay.pc = "enqueued" /\ pay.res.kind = "object"
                /\ Has(pay.steps, "enqueue")
                /\ Len(pay'.context) = Len(pay.context) + 1
       /\ Has(pay'.steps, "record_payment")
             => /\ pay'.out.kind = "ok"
                /\ pay'.out.ok /\ pay'.out.authorized
                /\ pay'.out.jobId = pay'.res.jobId
       /\ pay'.out.kind = "ok" => Has(pay'.steps, "record_payment")]_vars

\* a run that went through the five steps and returned the backend's jobId
C18_Witness ==
    /\ pay.pc = "returned"
    /\ pay.steps = <<"understand", "assess_risk", "decide", "enqueue",
                     "enqueue", "record_payment">>
    /\ pay.out.ok
    /\ pay.out.jobId = "job-123"
    /\ Len(pay.context) = 1

\* C21: in one call of process_instruction, whatever the backend does,
\* POST /payments is attempted at most 3 times, no attempt follows an
\* attempt the backend answered with success, and at most one payment is
\* recorded in the context.
C21_EnqueueAtMostThrice ==
    /\ pay.posts <= 3
    /\ pay.accepted # 0 => pay.posts = pay.accepted
    /\ Cardinality({i \in 1..Len(pay.steps) :
                        pay.steps[i] = "record_payment"}) <= 1

\* the rules backend gave no action: the call raised after its retries,
\* the response was not 2xx, or the result has no "action"
NoActionGiven(r) ==
    \/ r.kind \in {"raises", "non2xx"}
    \/ r.kind = "object" /\ r.action.t = "absent"

\* C22: rule validation fails open: when the rules call raises after its
\* retries, answers non-2xx or returns a result without an action, decide
\* does not raise and authorizes exactly when the risk does not block; a
\* denial then carries the risk block, never a rules action.
C22_RulesFailOpen ==
    NoActionGiven(pay.rules)
        => /\ pay.pc # "raised"
           /\ pay.decision.raised = ""
           /\ pay.decision.authorize <=> ~pay.risk.block
           /\ ~pay.decision.authorize
                 => /\ pay.decision.action = <<"b", "l", "o", "c", "k">>
                    /\ pay.decision.reason =
                          <<"r", "i", "s", "k", "_", "b", "l", "o", "c", "k">>
           /\ pay.decision.authorize
                 => pay.decision.action = <<"a", "l", "l", "o", "w">>

\* the rules call raised and the payment went through
C22_Witness ==
    /\ pay.rules.kind = "raises"
    /\ pay.decision.authorize
    /\ pay.out.ok

\* the four results process_instruction may return
IsResult(out) ==
    \/ out.kind = "intent_invalid" /\ ~out.ok
    \/ out.kind = "denied" /\ ~out.ok /\ ~out.authorized /\ out.reason # <<>>
    \/ out.kind = "enqueue_failed" /\ ~out.ok
    \/ out.kind = "ok" /\ out.ok /\ out.authorized

\* C23: process_instruction never raises: for every instruction text,
\* also one with more than 200 characters of memo, and every behaviour of
\* the backend, the run ends by returning exactly one of intent_invalid,
\* denied, enqueue_failed or ok; the parsed memo has at most 200
\* characters, so a long memo causes no validation failure.
C23_NeverRaises ==
    /\ pay.pc # "raised"
    /\ pay.out.kind # "raised"
    /\ pay.pc = "returned" => IsResult(pay.out)
    /\ pay.intent.memo.present => pay.intent.memo.len <= 200
    /\ (pay.text.memoChars > 200 /\ Len(pay.steps) >= 1)
          => pay.out.kind # "intent_invalid"

====
